---- MODULE Spec2Model ----
(***************************************************************************)
(* A model of mml.cpp: the MML sequencer (class MMLPlayer), the mip level  *)
(* selection of the wavetable bank (SquareWavetable::GetTable) and the     *)
(* render loop (GenerateSongSquareWave).                                   *)
(*                                                                         *)
(* Characters are their ASCII codes, as in the C++ source.  A uint32_t is  *)
(* a pair <<hi, lo>> of 16-bit halves, since the values range over the     *)
(* whole of 0 .. 2^32-1.                                                   *)
(***************************************************************************)
EXTENDS Integers, Sequences, FiniteSets, TLC

(***************************************************************************)
(* Bounds of the model.                                                    *)
(***************************************************************************)
\* Longest generated notation text (the named texts of Examples are longer).
MaxLen == 3
\* Tick calls made beyond the end of a song (countdown below zero) are
\* followed this far.
MaxIdle == 2
\* Bytes of memory behind the song buffer that a read past it may see.
MaxOverrun == 1
\* Samples of one tick that are followed one by one.
MaxSamples == 3

(***************************************************************************)
(* Characters.                                                             *)
(***************************************************************************)
\* The printable ASCII characters, code 32 first (the double quote, the
\* backslash and the backtick by name).
ASCII ==
    << " ", "!", "dquote", "#", "$", "%", "&", "'", "(", ")", "*", "+", ",", "-",
       ".", "/", "0", "1", "2", "3", "4", "5", "6", "7", "8", "9", ":", ";",
       "<", "=", ">", "?", "@", "A", "B", "C", "D", "E", "F", "G", "H", "I",
       "J", "K", "L", "M", "N", "O", "P", "Q", "R", "S", "T", "U", "V", "W",
       "X", "Y", "Z", "[", "backslash", "]", "^", "_", "backtick", "a", "b", "c", "d", "e",
       "f", "g", "h", "i", "j", "k", "l", "m", "n", "o", "p", "q", "r", "s",
       "t", "u", "v", "w", "x", "y", "z", "{", "|", "}", "~" >>

\* The code of a printable character, given as a one-character string.
Ord(c) == 31 + CHOOSE i \in 1..Len(ASCII) : ASCII[i] = c

\* A text, given as a sequence of one-character strings, as character codes.
Str(s) == [i \in 1..Len(s) |-> Ord(s[i])]

\* The characters the program names.
chGreater == Ord(">")
chLess == Ord("<")
chO == Ord("O")
chT == Ord("T")
chR == Ord("R")
chA == Ord("A")
chG == Ord("G")
chSharp == Ord("#")
chPlus == Ord("+")
chMinus == Ord("-")
chZero == Ord("0")
chSpace == Ord(" ")
chLowerA == Ord("a")
chLowerZ == Ord("z")

\* The characters the program names by escape: \0, \t, \n and \r.
NUL == chSpace - 32
TAB == chSpace - 23
LF == chSpace - 22
CR == chSpace - 19

\* toupper in the C locale.
toupper(c) == IF c >= chLowerA /\ c <= chLowerZ THEN c - (chLowerA - chA) ELSE c

(***************************************************************************)
(* uint32_t.                                                               *)
(***************************************************************************)
Half == 256 * 256

U32(hi, lo) == <<hi, lo>>

U32Zero == U32(0, 0)

U32Less(a, b) == a[1] < b[1] \/ (a[1] = b[1] /\ a[2] < b[2])

\* a + k * b modulo 2^32, for a small natural k.
U32MulAdd(a, k, b) ==
    LET lo == a[2] + k * b[2]
        hi == a[1] + k * b[1] + (lo \div Half)
    IN  U32(hi % Half, lo % Half)

(***************************************************************************)
(* Program constants.                                                      *)
(***************************************************************************)
NUM_OCTAVES == 3
NOTES_PER_OCTAVE == 12
TICK_LENGTH == 2700
WAVETABLE_NUM_TABLES == 8
WAVETABLE_BASE_FREQ == 40
WAVETABLE_CUTOFF_FREQ == 20000
SAMPLE_RATE == 44100
WAVETABLE_SIZE == 1024
WAVETABLE_SHIFT == 22
\* 0x3FFFFF
WAVETABLE_MASK == U32(63, Half - 1)

\* const std::array<int, 7> letterToNoteNumber, indexed from 'A'.
letterToNoteNumber == << 9, 11, 0, 2, 4, 5, 7 >>

\* const std::array<int, 10> lengthNumberToTickCount, indexed from 0.
lengthNumberToTickCount == << 1, 2, 3, 4, 6, 8, 12, 16, 24, 32 >>

\* MMLPlayer::noteToPhaseRate as the constructor fills it for the sample
\* rate 44100: (uint32_t)(UINT32_MAX * (440.0 * pow(2, (i - 21) / 12.0) / 44100)),
\* i = 0 .. 35, evaluated in double arithmetic.  Entry i is at i + 1.
noteToPhaseRate ==
    << U32(194, 26075), U32(205, 62742), U32(218, 13385), U32(231, 11753),
       U32(244, 60685), U32(259, 32115), U32(274, 60300), U32(291, 17545),
       U32(308, 38495), U32(326, 61404), U32(346, 24749), U32(366, 63853),
       U32(388, 52150), U32(411, 59949), U32(436, 26770), U32(462, 23506),
       U32(489, 55834), U32(518, 64230), U32(549, 55065), U32(582, 35090),
       U32(617, 11455), U32(653, 57273), U32(692, 49498), U32(733, 62171),
       U32(777, 38765), U32(823, 54363), U32(872, 53541), U32(924, 47013),
       U32(979, 46132), U32(1037, 62924), U32(1099, 44595), U32(1165, 4645),
       U32(1234, 22911), U32(1307, 49010), U32(1385, 33461), U32(1467, 58807) >>

\* SquareWavetable::topPhaseRate as Generate(44100) records it:
\* (uint32_t)(UINT32_MAX * 2 * frequency / sampleRate) with frequency =
\* 40 * 2^k in float arithmetic (UINT32_MAX * 2 wraps to 2^32 - 2 before the
\* conversion to float).  Level k is at k + 1.
topPhaseRate ==
    << U32(59, 29038), U32(118, 58076), U32(237, 50616), U32(475, 35696),
       U32(951, 5856), U32(1902, 11712), U32(3804, 23424), U32(7608, 46848) >>

(***************************************************************************)
(* SquareWavetable::GetTable.                                              *)
(***************************************************************************)
RECURSIVE Search(_, _, _)
\* The loop of std::lower_bound: the range starts at first and holds len
\* elements; each pass halves it.
Search(first, len, value) ==
    IF len <= 0 THEN first
    ELSE IF U32Less(topPhaseRate[first + (len \div 2) + 1], value)
         THEN Search(first + (len \div 2) + 1, len - (len \div 2) - 1, value)
         ELSE Search(first, len \div 2, value)

\* std::lower_bound(topPhaseRate.begin() + first, topPhaseRate.begin() + last,
\* value), as an index.
lower_bound(first, last, value) == Search(first, last - first, value)

\* GetTable over every level, the last one too.
GetTableWholeRange(phaseRate) == lower_bound(0, WAVETABLE_NUM_TABLES, phaseRate)

\* The search leaves out the last level: topPhaseRate.end() - 1.
GetTable(phaseRate) == lower_bound(0, WAVETABLE_NUM_TABLES - 1, phaseRate)

(***************************************************************************)
(* class MMLPlayer.                                                        *)
(***************************************************************************)
\* The object MMLPlayer(sampleRate) constructs: no song yet.
MMLPlayer0 ==
    [song |-> <<>>, position |-> 0, octave |-> 1, output |-> U32Zero,
     tempo |-> 4, counts |-> 0]

IsDone(p) == p.position < 0

\* song.clear(), the text folded to upper case, the sentinel, and the reset.
Load(p, songstr) ==
    [song |-> [i \in 1..Len(songstr) |-> toupper(songstr[i])] \o <<NUL>>,
     octave |-> 1, position |-> 0, output |-> U32Zero, counts |-> 0,
     tempo |-> 4]

\* song[i].  The vector's operator[] is unchecked: an index past the buffer
\* reads the memory behind it, mem (and NUL where the model follows it no
\* further: Tick is not followed into such a read).
SongAt(p, i, mem) ==
    IF i < Len(p.song) THEN p.song[i + 1]
    ELSE IF i - Len(p.song) < Len(mem) THEN mem[i - Len(p.song) + 1]
    ELSE NUL

\* ReadNumber with the lower end of the range left out.
ReadNumberAboveMin(p, min, max, mem) ==
    LET next == SongAt(p, p.position, mem) - chZero
    IN  [p |-> [p EXCEPT !.position = @ + 1],
         threw |-> ~(next > min /\ next <= max),
         value |-> next]

\* char next = song[position++] - '0', and the range check.
ReadNumber(p, min, max, mem) ==
    LET next == SongAt(p, p.position, mem) - chZero
    IN  [p |-> [p EXCEPT !.position = @ + 1],
         threw |-> ~(next >= min /\ next <= max),
         value |-> next]

\* The countdown tested as counts-- > 0 would test it.
StillCountingPostDecrement(counts) == counts >= 0

\* if (--counts > 0): the countdown after the decrement still runs.
StillCounting(counts) == counts > 0

\* case '>' without the test of the top octave.
OctaveUpUnclamped(octave) == octave + 1

\* case '>'
OctaveUp(octave) == IF octave < NUM_OCTAVES - 1 THEN octave + 1 ELSE octave

\* case '<'
OctaveDown(octave) == IF octave > 0 THEN octave - 1 ELSE octave

\* The optional sharp or flat after a note name.
Modified(pitch, next) ==
    IF next = chSharp \/ next = chPlus THEN pitch + 1
    ELSE IF next = chMinus THEN pitch - 1
    ELSE pitch

\* The test of the modifier, were the character never given back
\* (no default: position--).
IsModifierAlways(next) == TRUE

IsModifier(next) == next = chSharp \/ next = chPlus \/ next = chMinus

\* The clamp of the pitch after the modifier.
ClampPitch(pitch) ==
    IF pitch >= NUM_OCTAVES * NOTES_PER_OCTAVE THEN pitch - 1
    ELSE IF pitch < 0 THEN pitch + 1
    ELSE pitch

\* The index into noteToPhaseRate.
NoteIndex(pitch, octave) == pitch + octave * 12

\* noteToPhaseRate[index].  The array's operator[] is unchecked: an index
\* outside the array reads the memory beside it, oob.
NoteRate(index, oob) ==
    IF index >= 0 /\ index < Len(noteToPhaseRate) THEN noteToPhaseRate[index + 1]
    ELSE oob

\* (tempo + 1) * lengthNumberToTickCount[digit]
TickCount(tempo, digit) == (tempo + 1) * lengthNumberToTickCount[digit + 1]

NoIndex == 0 - 1
NoDigit == 0 - 1

\* What one pass of the switch in Tick's loop did.
Passed(p, done, threw, index, digit, reads) ==
    [p |-> p, done |-> done, threw |-> threw, index |-> index,
     digit |-> digit, reads |-> reads]

\* case 'O' and case 'T', were the field assigned before the range check.
SetNumberUnchecked(p, q, field, max, mem) ==
    LET n == ReadNumber(q, 0, max, mem)
    IN  Passed([n.p EXCEPT ![field] = n.value], FALSE, n.threw, NoIndex,
               IF n.threw THEN NoDigit ELSE n.value, <<p.position, q.position>>)

\* case 'O' and case 'T'
SetNumber(p, q, field, max, mem) ==
    LET n == ReadNumber(q, 0, max, mem)
    IN  IF n.threw
        THEN Passed(n.p, FALSE, TRUE, NoIndex, NoDigit, <<p.position, q.position>>)
        ELSE Passed([n.p EXCEPT ![field] = n.value], FALSE, FALSE, NoIndex,
                    n.value, <<p.position, q.position>>)

\* case 'R'
Rest(p, q, mem) ==
    LET n == ReadNumber(q, 0, 9, mem)
    IN  IF n.threw
        THEN Passed(n.p, FALSE, TRUE, NoIndex, NoDigit, <<p.position, q.position>>)
        ELSE Passed([n.p EXCEPT !.counts = TickCount(p.tempo, n.value),
                                !.output = U32Zero],
                    TRUE, FALSE, NoIndex, n.value, <<p.position, q.position>>)

\* case 'A' .. 'G'
Note(p, q, curr, mem, oob) ==
    LET next == SongAt(q, q.position, mem)
        \* position++ for the modifier, position-- again when it was none
        m == [q EXCEPT !.position = IF IsModifier(next) THEN @ + 1 ELSE @]
        pitch == ClampPitch(Modified(letterToNoteNumber[curr - chA + 1], next))
        n == ReadNumber(m, 0, 9, mem)
        index == NoteIndex(pitch, p.octave)
        reads == <<p.position, q.position, m.position>>
    IN  IF n.threw
        THEN Passed(n.p, FALSE, TRUE, NoIndex, NoDigit, reads)
        ELSE Passed([n.p EXCEPT !.counts = TickCount(p.tempo, n.value),
                                !.output = NoteRate(index, oob)],
                    TRUE, FALSE, index, n.value, reads)

\* default, were the character skipped like whitespace.
InvalidCharacterSkipped(q, here) ==
    Passed(q, FALSE, FALSE, NoIndex, NoDigit, here)

\* default: throw std::domain_error("Invalid character in song string")
InvalidCharacter(q, here) == Passed(q, FALSE, TRUE, NoIndex, NoDigit, here)

\* One pass of the loop of Tick: switch (curr = song[position++]).
Command(p, mem, oob) ==
    LET curr == SongAt(p, p.position, mem)
        q == [p EXCEPT !.position = @ + 1]
        here == <<p.position>>
    IN  CASE curr = NUL ->
               Passed([q EXCEPT !.position = 0 - 1, !.output = U32Zero],
                      TRUE, FALSE, NoIndex, NoDigit, here)
          [] curr = chGreater ->
               Passed([q EXCEPT !.octave = OctaveUp(@)], FALSE, FALSE, NoIndex,
                      NoDigit, here)
          [] curr = chLess ->
               Passed([q EXCEPT !.octave = OctaveDown(@)], FALSE, FALSE, NoIndex,
                      NoDigit, here)
          [] curr = chO -> SetNumber(p, q, "octave", NUM_OCTAVES - 1, mem)
          [] curr = chT -> SetNumber(p, q, "tempo", 9, mem)
          [] curr \in {chSpace, LF, CR, TAB} ->
               Passed(q, FALSE, FALSE, NoIndex, NoDigit, here)
          [] curr = chR -> Rest(p, q, mem)
          [] curr >= chA /\ curr <= chG -> Note(p, q, curr, mem, oob)
          [] OTHER -> InvalidCharacter(q, here)

\* The fields of a sequencer other than its song.
Fields(p) ==
    [position |-> p.position, octave |-> p.octave, tempo |-> p.tempo,
     counts |-> p.counts, output |-> p.output]

\* The record of one pass: the command character, the fields before and
\* after it, and what the pass did.
Entry(p, c, mem) ==
    [cmd |-> SongAt(p, p.position, mem), pre |-> Fields(p), post |-> Fields(c.p),
     threw |-> c.threw, index |-> c.index, digit |-> c.digit, reads |-> c.reads]

\* The one element of a singleton set: Only({ e(x) : x \in {v} }) is e(v)
\* with v computed once.
Only(S) == CHOOSE x \in S : TRUE

RECURSIVE While(_, _, _, _)
\* while (!done) { ... }, left by done or by a throw; log records the passes.
While(p, mem, oob, log) ==
    Only({ IF c.done \/ c.threw
           THEN [p |-> c.p, threw |-> c.threw,
                 log |-> Append(log, Entry(p, c, mem))]
           ELSE While(c.p, mem, oob, Append(log, Entry(p, c, mem)))
           : c \in { Command(p, mem, oob) } })

NoValue == <<>>

\* The return of a finished sequencer, were the song started again instead.
IdleRewind(d) ==
    [p |-> [d EXCEPT !.position = 0], kind |-> "idle", ret |-> U32Zero,
     log |-> <<>>]

\* if (position < 0) { return 0; }
Idle(d) == [p |-> d, kind |-> "idle", ret |-> U32Zero, log |-> <<>>]

\* MMLPlayer::Tick.  kind says how the call ended: "sustain" (the return of
\* the countdown), "idle" (the return of a finished sequencer), "parse" (the
\* return after the loop) or "throw"; ret is the value returned.
Tick(p, mem, oob) ==
    LET d == [p EXCEPT !.counts = @ - 1]
    IN  IF StillCounting(d.counts)
        THEN [p |-> d, kind |-> "sustain", ret |-> d.output, log |-> <<>>]
        ELSE IF d.position < 0
        THEN Idle(d)
        ELSE Only({ IF w.threw
                    THEN [p |-> w.p, kind |-> "throw", ret |-> NoValue,
                          log |-> w.log]
                    ELSE [p |-> w.p, kind |-> "parse", ret |-> w.p.output,
                          log |-> w.log]
                    : w \in { While(d, mem, oob, <<>>) } })

(***************************************************************************)
(* GenerateSongSquareWave: one pass of its loop.                           *)
(***************************************************************************)
\* The TICK_LENGTH samples one tick appends: zeros for the rate 0, else the
\* samples of table tableNum from the phase on.
Chunk(phaseRate, tableNum, phase) ==
    [rate |-> phaseRate, table |-> tableNum, phase |-> phase]

\* The phase accumulator after a tick, were it set back to 0 by a silent tick.
AdvanceRestart(phase, phaseRate) ==
    IF phaseRate = U32Zero THEN U32Zero
    ELSE U32MulAdd(phase, TICK_LENGTH, phaseRate)

\* The phase accumulator after a tick: phase += phaseRate for each sample of
\* a tick that is not silent.
Advance(phase, phaseRate) ==
    IF phaseRate = U32Zero THEN phase
    ELSE U32MulAdd(phase, TICK_LENGTH, phaseRate)

(***************************************************************************)
(* Inputs.                                                                 *)
(***************************************************************************)
\* The characters of the generated texts.
Alphabet ==
    { Ord(">"), Ord("<"), Ord("O"), Ord("T"), Ord("R"), Ord("B"), Ord("C"),
      Ord("#"), Ord("-"), Ord("0"), Ord("3"), Ord(" "), Ord("Z"), Ord("c") }

\* Named texts.
Examples ==
    { Str(<<"T", "4", " ", "O", "0", " ", "C", "8">>),
      Str(<<"R", "0">>),
      Str(<<"Z", "4">>),
      Str(<<"O", "5">>),
      Str(<<">", "B", "#", "0">>),
      Str(<<"O", "2", "B", "+", "0">>),
      Str(<<"<", "C", "-", "0">>),
      Str(<<">", ">", "<", "<", "<", "G", "1">>),
      Str(<<"C", "3", "R", "0", "Z", "4">>) }

Texts == Examples \cup UNION { [1..k -> Alphabet] : k \in 0..MaxLen }

\* What a read of noteToPhaseRate outside the array may find.
OobValues == { U32Zero, noteToPhaseRate[1], U32(Half - 1, Half - 1) }

\* What the memory behind the song buffer may hold.
Tails == [1..MaxOverrun -> { NUL, Ord("C"), Ord("0") }]

(***************************************************************************)
(* State.                                                                  *)
(***************************************************************************)
VARIABLES
    songstr,  \* the caller's notation text
    player,   \* the sequencer
    last,     \* the last call of player.Tick: its kind, result and passes
    ev,       \* the note or rest player is playing: the tempo and digit it
              \* was parsed with, its result, and the Tick calls that returned it
    other,    \* a second sequencer, constructed on the same text
    otherLast,\* the last call of other.Tick
    pc,       \* GenerateSongSquareWave: "loop", "returned" or "thrown"
    data,     \* its sample vector, a sequence of chunks of TICK_LENGTH samples
    phase,    \* its phase accumulator
    phaseRate,\* its phase-rate of the current tick
    tableNum  \* its mip level of the current tick

vars ==
    <<songstr, player, last, ev, other, otherLast, pc, data, phase, phaseRate,
      tableNum>>

NoCall == [kind |-> "none", ret |-> NoValue, log |-> <<>>]
NoEvent == [tempo |-> 0, digit |-> NoDigit, ticks |-> 0, rate |-> NoValue]
NoPlayer == [song |-> <<>>]

\* The passes of a call read nothing further than the model follows.
Followed(p, r) ==
    \A i \in 1..Len(r.log) : \A j \in 1..Len(r.log[i].reads) :
        r.log[i].reads[j] < Len(p.song) + MaxOverrun

\* Memory behind the buffer is read only by a call that starts behind the
\* sentinel.
MemFor(p) == IF p.position >= Len(p.song) THEN Tails ELSE { <<>> }

\* The event after a call r of Tick.
Event(e, r) ==
    IF r.kind = "sustain" THEN [e EXCEPT !.ticks = @ + 1]
    ELSE IF r.kind = "parse" /\ ~IsDone(r.p)
    THEN LET c == r.log[Len(r.log)]
         IN  [tempo |-> c.pre.tempo, digit |-> c.digit, ticks |-> 1, rate |-> r.ret]
    ELSE NoEvent

Called(r) == [kind |-> r.kind, ret |-> r.ret, log |-> r.log]

NoTable == 0 - 1

RenderIdle ==
    /\ pc = "none"
    /\ data = <<>>
    /\ phase = U32Zero
    /\ phaseRate = U32Zero
    /\ tableNum = NoTable

(***************************************************************************)
(* The sequencer used by itself: Load and Tick in any order.               *)
(***************************************************************************)
Init ==
    /\ songstr \in Texts
    /\ player = Load(MMLPlayer0, songstr)
    /\ last = NoCall
    /\ ev = NoEvent
    /\ other = NoPlayer
    /\ otherLast = NoCall
    /\ RenderIdle

LoadCall ==
    \E s \in Examples \cup {songstr} :
        /\ songstr' = s
        /\ player' = Load(player, s)
        /\ last' = NoCall
        /\ ev' = NoEvent
        /\ other' = NoPlayer
        /\ otherLast' = NoCall
        /\ UNCHANGED <<pc, data, phase, phaseRate, tableNum>>

TickCall ==
    /\ player.counts > 0 - MaxIdle
    /\ \E mem \in MemFor(player), oob \in OobValues :
        \E r \in { Tick(player, mem, oob) } :
            /\ Followed(player, r)
            /\ player' = r.p
            /\ last' = Called(r)
            /\ ev' = Event(ev, r)
    /\ other' = NoPlayer
    /\ otherLast' = NoCall
    /\ UNCHANGED <<songstr, pc, data, phase, phaseRate, tableNum>>

Next == LoadCall \/ TickCall

Spec == Init /\ [][Next]_vars

(***************************************************************************)
(* Two sequencers on the same text, ticked together.                       *)
(***************************************************************************)
LoadBoth ==
    \E s \in Examples \cup {songstr} :
        /\ songstr' = s
        /\ player' = Load(player, s)
        /\ other' = Load(MMLPlayer0, s)
        /\ last' = NoCall
        /\ otherLast' = NoCall
        /\ ev' = NoEvent
        /\ UNCHANGED <<pc, data, phase, phaseRate, tableNum>>

TickBoth ==
    /\ other # NoPlayer
    /\ player.counts > 0 - MaxIdle
    /\ \E mem \in MemFor(player), oob \in OobValues :
        \E r \in { Tick(player, mem, oob) } :
            /\ Followed(player, r)
            /\ player' = r.p
            /\ last' = Called(r)
            /\ ev' = Event(ev, r)
    /\ \E mem \in MemFor(other), oob \in OobValues :
        \E r \in { Tick(other, mem, oob) } :
            /\ Followed(other, r)
            /\ other' = r.p
            /\ otherLast' = Called(r)
    /\ UNCHANGED <<songstr, pc, data, phase, phaseRate, tableNum>>

NextPair == LoadCall \/ TickCall \/ LoadBoth \/ TickBoth

SpecPair == Init /\ [][NextPair]_vars

(***************************************************************************)
(* GenerateSongSquareWave(songstr, len).                                   *)
(***************************************************************************)
InitRender ==
    /\ songstr \in Texts
    /\ player = Load(MMLPlayer0, songstr)
    /\ last = NoCall
    /\ ev = NoEvent
    /\ other = NoPlayer
    /\ otherLast = NoCall
    /\ pc = "loop"
    /\ data = <<>>
    /\ phase = U32Zero
    /\ phaseRate = U32Zero
    /\ tableNum = NoTable

\* One pass of the for loop.  A throw of Tick leaves the function: its
\* vector is destroyed and the caller receives no samples.
RenderTick ==
    /\ pc = "loop"
    /\ ~IsDone(player)
    /\ \E oob \in OobValues :
        \E r \in { Tick(player, <<>>, oob) } :
            /\ player' = r.p
            /\ last' = Called(r)
            /\ ev' = Event(ev, r)
            /\ IF r.kind = "throw"
               THEN /\ pc' = "thrown"
                    /\ data' = <<>>
                    /\ UNCHANGED <<phase, phaseRate, tableNum>>
               ELSE /\ pc' = pc
                    /\ phaseRate' = r.ret
                    /\ tableNum' = GetTable(r.ret)
                    /\ data' = Append(data, Chunk(r.ret, GetTable(r.ret), phase))
                    /\ phase' = Advance(phase, r.ret)
    /\ UNCHANGED <<songstr, other, otherLast>>

\* return data
RenderReturn ==
    /\ pc = "loop"
    /\ IsDone(player)
    /\ pc' = "returned"
    /\ UNCHANGED <<songstr, player, last, ev, other, otherLast, data, phase,
                   phaseRate, tableNum>>

NextRender == RenderTick \/ RenderReturn

SpecRender == InitRender /\ [][NextRender]_vars

\* The loop runs on: nothing but its own end stops it.
SpecRenderFair == SpecRender /\ WF_vars(NextRender)

(***************************************************************************)
(* SquareWavetable::GetTable by itself, on phase-rates of the whole range  *)
(* of a uint32_t.                                                          *)
(***************************************************************************)
\* One below, at and one above a 32-bit value (no wrap: the values used are
\* neither 0 nor 2^32 - 1).
Around(v) ==
    { v,
      IF v[2] = 0 THEN U32(v[1] - 1, Half - 1) ELSE U32(v[1], v[2] - 1),
      IF v[2] = Half - 1 THEN U32(v[1] + 1, 0) ELSE U32(v[1], v[2] + 1) }

\* The phase-rates GetTable is asked for: the ends of the range, every
\* threshold and its neighbours, every note, and values above all thresholds.
Rates ==
    { U32Zero, U32(0, 1), U32(Half - 1, Half - 1), U32(Half \div 2, 0),
      U32(7609, 0), U32(30000, 12345) }
    \cup UNION { Around(topPhaseRate[k]) : k \in 1..Len(topPhaseRate) }
    \cup { noteToPhaseRate[i] : i \in 1..Len(noteToPhaseRate) }

InitTable ==
    /\ songstr = <<>>
    /\ player = MMLPlayer0
    /\ last = NoCall
    /\ ev = NoEvent
    /\ other = NoPlayer
    /\ otherLast = NoCall
    /\ pc = "none"
    /\ data = <<>>
    /\ phase = U32Zero
    /\ phaseRate \in Rates
    /\ tableNum = NoTable

\* auto tableNum = wavetable.GetTable(phaseRate)
SelectTable ==
    /\ tableNum = NoTable
    /\ tableNum' = GetTable(phaseRate)
    /\ UNCHANGED <<songstr, player, last, ev, other, otherLast, pc, data, phase,
                   phaseRate>>

\* The next phase-rate.
NextRate ==
    /\ tableNum # NoTable
    /\ phaseRate' \in Rates
    /\ tableNum' = NoTable
    /\ UNCHANGED <<songstr, player, last, ev, other, otherLast, pc, data, phase>>

NextTable == SelectTable \/ NextRate

SpecTable == InitTable /\ [][NextTable]_vars

(***************************************************************************)
(* Properties.                                                             *)
(***************************************************************************)
\* The passes of the last Tick call.
Passes == { last.log[i] : i \in 1..Len(last.log) }

\* A step in which player.Tick() was called.
TickStep == last' # NoCall /\ player' # player

IsNoteLetter(c) == c >= chA /\ c <= chG

\* C1: every note command Tick parses reads noteToPhaseRate at an index
\* inside the table, 0 .. NUM_OCTAVES * NOTES_PER_OCTAVE - 1.
C1_IndexInTable ==
    \A e \in Passes :
        (IsNoteLetter(e.cmd) /\ ~e.threw) =>
            (e.index >= 0 /\ e.index <= NUM_OCTAVES * NOTES_PER_OCTAVE - 1)

\* The length in ticks of the event e, as the claim C2 states it.
EventLength(e) == (e.tempo + 1) * lengthNumberToTickCount[e.digit + 1]

\* C2: a note or rest parsed with digit d at tempo t is returned by exactly
\* (t + 1) * lengthNumberToTickCount[d] consecutive Tick calls: while fewer
\* calls have returned it, the next call reads no character and returns the
\* same phase-rate; once that many have, the next call reads on.  The
\* phase-rate is 0 for a rest and the table entry of the note's index.
C2_ExactDuration ==
    [][ /\ (TickStep /\ ev.digit # NoDigit) =>
              IF ev.ticks < EventLength(ev)
              THEN /\ last'.kind = "sustain"
                   /\ last'.ret = ev.rate
                   /\ last'.log = <<>>
                   /\ player'.position = player.position
                   /\ ev' = [ev EXCEPT !.ticks = @ + 1]
              ELSE /\ ev.ticks = EventLength(ev)
                   /\ last'.kind \in {"parse", "throw"}
                   /\ Len(last'.log) > 0
        /\ (TickStep /\ ev'.digit # NoDigit /\ ev'.ticks = 1) =>
              LET c == last'.log[Len(last'.log)]
              IN  /\ ev'.rate = last'.ret
                  /\ ev'.tempo = player'.tempo
                  /\ c.cmd = chR => last'.ret = U32Zero
                  /\ (IsNoteLetter(c.cmd) /\ c.index >= 0
                        /\ c.index < Len(noteToPhaseRate)) =>
                        last'.ret = noteToPhaseRate[c.index + 1]
      ]_vars

\* C2's case: the 120th and last Tick call of the C8 of "T4 O0 C8".
C2_Witness ==
    /\ songstr = Str(<<"T", "4", " ", "O", "0", " ", "C", "8">>)
    /\ last.kind = "sustain"
    /\ ev.ticks = 120
    /\ ev.tempo = 4 /\ ev.digit = 8
    /\ last.ret = noteToPhaseRate[1]
    /\ last.ret # U32Zero

RECURSIVE TicksFrom(_, _, _)
\* The sum over the note and rest commands of a valid song from position i
\* on, at the tempo in force there, of (tempo + 1) * lengthNumberToTickCount
\* [digit], read off the text.
TicksFrom(song, i, tempo) ==
    LET c == song[i + 1]
        digitAt(k) == song[k + 1] - chZero
    IN  IF c = NUL THEN 0
        ELSE IF c = chT THEN TicksFrom(song, i + 2, digitAt(i + 1))
        ELSE IF c = chO THEN TicksFrom(song, i + 2, tempo)
        ELSE IF c = chR
        THEN (tempo + 1) * lengthNumberToTickCount[digitAt(i + 1) + 1]
                + TicksFrom(song, i + 2, tempo)
        ELSE IF IsNoteLetter(c)
        THEN IF IsModifier(song[i + 2])
             THEN (tempo + 1) * lengthNumberToTickCount[digitAt(i + 2) + 1]
                    + TicksFrom(song, i + 3, tempo)
             ELSE (tempo + 1) * lengthNumberToTickCount[digitAt(i + 1) + 1]
                    + TicksFrom(song, i + 2, tempo)
        ELSE TicksFrom(song, i + 1, tempo)

\* The number of samples in data.
Samples == TICK_LENGTH * Len(data)

\* C3: for a text of valid commands, the samples render returns are
\* TICK_LENGTH times the sum, over the notes and rests of the text, of
\* (tempo + 1) * lengthNumberToTickCount[digit].
C3_SampleCount ==
    pc = "returned" => Samples = TICK_LENGTH * TicksFrom(player.song, 0, 4)

IsWhitespace(c) == c \in {chSpace, LF, CR, TAB}

IsDigit(c, max) == c - chZero >= 0 /\ c - chZero <= max

RECURSIVE ValidFrom(_, _)
\* The song holds only valid commands from position i on: whitespace, '>',
\* '<', 'O' and a digit 0 .. NUM_OCTAVES-1, 'T' or 'R' and a digit, a note
\* letter with an optional modifier and a digit, up to the sentinel.
ValidFrom(song, i) ==
    LET c == song[i + 1]
    IN  IF c = NUL THEN i + 1 = Len(song)
        ELSE IF IsWhitespace(c) \/ c = chGreater \/ c = chLess
        THEN ValidFrom(song, i + 1)
        ELSE IF c = chO
        THEN IsDigit(song[i + 2], NUM_OCTAVES - 1) /\ ValidFrom(song, i + 2)
        ELSE IF c = chT \/ c = chR
        THEN IsDigit(song[i + 2], 9) /\ ValidFrom(song, i + 2)
        ELSE IF IsNoteLetter(c)
        THEN IF IsModifier(song[i + 2])
             THEN IsDigit(song[i + 3], 9) /\ ValidFrom(song, i + 3)
             ELSE IsDigit(song[i + 2], 9) /\ ValidFrom(song, i + 2)
        ELSE FALSE

ValidText == ValidFrom(player.song, 0)

\* The render loop has ended as C4 says it ends.
Ended ==
    \/ pc = "returned" /\ IsDone(player)
    \/ pc = "thrown" /\ last.kind = "throw" /\ ~ValidText

\* C4: the render loop ends after finitely many Tick calls, with IsDone()
\* true or by an error of Tick, and with IsDone() true when the text holds
\* only valid commands.
C4_Terminates == <>Ended

\* C4's case: the loop has ended after the 121 Tick calls of "T4 O0 C8".
C4_Witness ==
    /\ pc = "returned"
    /\ IsDone(player)
    /\ ValidText
    /\ Len(data) = 121

\* A character that is no command, no whitespace and not the sentinel.
IsInvalidCharacter(c) ==
    ~(c \in {chGreater, chLess, chO, chT, chR, NUL} \/ IsNoteLetter(c)
        \/ IsWhitespace(c))

\* C5: a character at command position that is no command makes Tick raise
\* an error; render then takes no further tick and hands no samples to its
\* caller.
C5_NoPartialOutput ==
    /\ \A e \in Passes :
          IsInvalidCharacter(e.cmd) =>
              (e.threw /\ last.kind = "throw" /\ last.ret = NoValue
                 /\ pc = "thrown")
    /\ pc = "thrown" => (data = <<>> /\ ~ENABLED NextRender)

\* C5's case: the Z of "C3R0Z4" has been met, after the ticks of C3 and R0.
C5_Witness ==
    /\ songstr = Str(<<"C", "3", "R", "0", "Z", "4">>)
    /\ pc = "thrown"
    /\ \E e \in Passes : IsInvalidCharacter(e.cmd) /\ e.pre.position = 4
    /\ phase # U32Zero

\* The character a pass e that starts inside the song reads as its digit.
DigitCharacter(e) ==
    LET at == IF IsNoteLetter(e.cmd) /\ IsModifier(player.song[e.pre.position + 2])
              THEN e.pre.position + 2
              ELSE e.pre.position + 1
    IN  player.song[at + 1]

\* C6: an 'O' whose next character is no digit 0 .. NUM_OCTAVES-1, and a
\* 'T', 'R' or note whose next character is no digit 0 .. 9, makes Tick
\* raise an error, and the failing command leaves octave, tempo and output
\* as they were before it.
C6_FailedCommandAssignsNothing ==
    \A e \in Passes :
        /\ (e.pre.position < Len(player.song) - 1 /\ e.cmd = chO
              /\ ~IsDigit(DigitCharacter(e), NUM_OCTAVES - 1)) => e.threw
        /\ (e.pre.position < Len(player.song) - 1
              /\ (e.cmd = chT \/ e.cmd = chR \/ IsNoteLetter(e.cmd))
              /\ ~IsDigit(DigitCharacter(e), 9)) => e.threw
        /\ e.threw =>
              /\ last.kind = "throw"
              /\ e.post.octave = e.pre.octave
              /\ e.post.tempo = e.pre.tempo
              /\ e.post.output = e.pre.output
              /\ player.octave = e.pre.octave
              /\ player.tempo = e.pre.tempo
              /\ player.output = e.pre.output

\* C6's case: an 'O' with a bad digit has failed at an octave that is not
\* the initial one.
C6_Witness ==
    /\ last.kind = "throw"
    /\ \E e \in Passes :
          e.cmd = chO /\ e.threw /\ e.pre.octave = 2 /\ player.octave = 2

\* C7: octave is in 0 .. NUM_OCTAVES-1 and tempo in 0 .. 9 in every state;
\* '>' at the top octave and '<' at octave 0 leave the octave unchanged and
\* raise no error.
C7_OctaveTempoRange ==
    /\ player.octave >= 0 /\ player.octave <= NUM_OCTAVES - 1
    /\ player.tempo >= 0 /\ player.tempo <= 9
    /\ \A e \in Passes :
          /\ e.post.octave >= 0 /\ e.post.octave <= NUM_OCTAVES - 1
          /\ (e.cmd = chGreater /\ e.pre.octave = NUM_OCTAVES - 1) =>
                (e.post.octave = e.pre.octave /\ ~e.threw)
          /\ (e.cmd = chLess /\ e.pre.octave = 0) =>
                (e.post.octave = e.pre.octave /\ ~e.threw)

\* C7's case: one Tick call has met '>' at the top octave and '<' at
\* octave 0.
C7_Witness ==
    /\ \E e \in Passes : e.cmd = chGreater /\ e.pre.octave = NUM_OCTAVES - 1
    /\ \E e \in Passes : e.cmd = chLess /\ e.pre.octave = 0
    /\ last.kind = "parse"

\* C8: once the sentinel is consumed, every further Tick call leaves
\* IsDone() true, returns 0 and reads no character.
C8_DoneStaysDone ==
    [][ (TickStep /\ IsDone(player)) =>
            /\ IsDone(player')
            /\ last'.kind = "idle"
            /\ last'.ret = U32Zero
            /\ last'.log = <<>>
            /\ player'.output = U32Zero
      ]_vars

\* C8's case: Tick calls after the end of "R0", as many as are followed.
C8_Witness ==
    /\ songstr = Str(<<"R", "0">>)
    /\ IsDone(player)
    /\ last.kind = "idle"
    /\ player.counts = 0 - MaxIdle

\* C9: GetTable(r) is the lowest level whose threshold is at least r, and
\* the last level when r is above the thresholds of all levels before it.
C9_LowestSafeLevel ==
    tableNum # NoTable =>
        /\ tableNum >= 0 /\ tableNum <= WAVETABLE_NUM_TABLES - 1
        /\ \A k \in 0..(tableNum - 1) : U32Less(topPhaseRate[k + 1], phaseRate)
        /\ tableNum < WAVETABLE_NUM_TABLES - 1 =>
              ~U32Less(topPhaseRate[tableNum + 1], phaseRate)

\* C9's case: a phase-rate above every threshold has got the last level.
C9_Witness ==
    /\ tableNum = WAVETABLE_NUM_TABLES - 1
    /\ U32Less(topPhaseRate[WAVETABLE_NUM_TABLES], phaseRate)

\* C10: two sequencers given the same text, one of them used before, give
\* the same Tick results and are in the same state.
C10_SameResults ==
    other # NoPlayer =>
        /\ otherLast.kind = last.kind
        /\ otherLast.ret = last.ret
        /\ IsDone(other) = IsDone(player)
        /\ Fields(other) = Fields(player)

\* a + b modulo 2^32.
U32Add(a, b) ==
    LET lo == a[2] + b[2]
        hi == a[1] + b[1] + (IF lo >= Half THEN 1 ELSE 0)
    IN  U32(IF hi >= Half THEN hi - Half ELSE hi,
            IF lo >= Half THEN lo - Half ELSE lo)

RECURSIVE U32Times(_, _)
\* k * b modulo 2^32, by doubling.
U32Times(k, b) ==
    IF k = 0 THEN U32Zero
    ELSE IF k % 2 = 1 THEN U32Add(b, U32Times(k - 1, b))
    ELSE Only({ U32Add(h, h) : h \in { U32Times(k \div 2, b) } })

RECURSIVE PhaseSum(_, _)
\* The sum of TICK_LENGTH * rate over the first n ticks of d, modulo 2^32.
PhaseSum(d, n) ==
    IF n = 0 THEN U32Zero
    ELSE U32Add(PhaseSum(d, n - 1), U32Times(TICK_LENGTH, d[n].rate))

\* A step of the render loop in which Tick returned a phase-rate.
RenderedTick == pc = "loop" /\ pc' = "loop" /\ Len(data') # Len(data)

\* C11: a tick of phase-rate 0 appends TICK_LENGTH zero samples and leaves
\* the phase accumulator unchanged; a tick of phase-rate r # 0 appends
\* TICK_LENGTH samples and leaves it at phase + TICK_LENGTH * r modulo 2^32;
\* the accumulator is never reset, so it is the sum of TICK_LENGTH * r over
\* the ticks rendered so far, modulo 2^32.
C11_PhaseAccumulates ==
    [][ RenderedTick =>
          /\ Len(data') = Len(data) + 1
          /\ SubSeq(data', 1, Len(data)) = data
          /\ data'[Len(data')].rate = last'.ret
          /\ data'[Len(data')].phase = phase
          /\ last'.ret = U32Zero => phase' = phase
          /\ last'.ret # U32Zero =>
                phase' = U32Add(phase, U32Times(TICK_LENGTH, last'.ret))
          /\ phase' = PhaseSum(data', Len(data'))
      ]_vars

\* C11's case: "T4 O0 C8" has rendered: 120 ticks of a note, over which the
\* accumulator has wrapped, and a silent tick that left it where it was.
C11_Witness ==
    /\ pc = "returned"
    /\ songstr = Str(<<"T", "4", " ", "O", "0", " ", "C", "8">>)
    /\ Len(data) = 121
    /\ data[120].rate = noteToPhaseRate[1]
    /\ \E k \in 1..119 : U32Less(data[k + 1].phase, data[k].phase)
    /\ data[121].rate = U32Zero
    /\ data[121].phase = phase
    /\ phase # U32Zero

(***************************************************************************)
(* Two sequencers, the second on the text with its letters in upper case.  *)
(***************************************************************************)
LowerLetters ==
    << "a", "b", "c", "d", "e", "f", "g", "h", "i", "j", "k", "l", "m", "n",
       "o", "p", "q", "r", "s", "t", "u", "v", "w", "x", "y", "z" >>

UpperLetters ==
    << "A", "B", "C", "D", "E", "F", "G", "H", "I", "J", "K", "L", "M", "N",
       "O", "P", "Q", "R", "S", "T", "U", "V", "W", "X", "Y", "Z" >>

\* The text s with every ASCII letter in upper case, letter by letter.
Uppercased(s) ==
    [i \in 1..Len(s) |->
        IF \E k \in 1..26 : Ord(LowerLetters[k]) = s[i]
        THEN Ord(UpperLetters[CHOOSE k \in 1..26 : Ord(LowerLetters[k]) = s[i]])
        ELSE s[i]]

\* Texts in lower case.
LowerExamples ==
    { Str(<<"t", "4", " ", "o", "0", " ", "c", "8">>),
      Str(<<"r", "0">>),
      Str(<<"z", "4">>),
      Str(<<">", "b", "#", "0">>),
      Str(<<"c", "3", "R", "0", "g", "1">>) }

InitFold ==
    /\ songstr \in Texts \cup LowerExamples
    /\ player = Load(MMLPlayer0, songstr)
    /\ other = Load(MMLPlayer0, Uppercased(songstr))
    /\ last = NoCall
    /\ otherLast = NoCall
    /\ ev = NoEvent
    /\ RenderIdle

SpecFold == InitFold /\ [][TickBoth]_vars

\* C12: a text and the same text with every ASCII letter in upper case give
\* the same sequence of Tick results: phase-rates, IsDone values and errors.
C12_CaseInsensitive ==
    /\ otherLast.kind = last.kind
    /\ otherLast.ret = last.ret
    /\ IsDone(other) = IsDone(player)

\* The absolute note index C13 states for the note of pass e: the letter's
\* semitone, plus or minus one for a modifier, plus 12 per octave.
StatedIndex(e) ==
    LET next == player.song[e.pre.position + 2]
        p == letterToNoteNumber[e.cmd - chA + 1]
    IN  (IF next = chSharp \/ next = chPlus THEN p + 1
         ELSE IF next = chMinus THEN p - 1
         ELSE p) + 12 * e.pre.octave

\* C13: a note with a modifier emits noteToPhaseRate at the letter's index
\* plus or minus one, whenever that index is in the table, also across an
\* octave boundary.
C13_ModifierMovesOneSemitone ==
    \A e \in Passes :
        (/\ IsNoteLetter(e.cmd)
         /\ ~e.threw
         /\ StatedIndex(e) >= 0
         /\ StatedIndex(e) <= NUM_OCTAVES * NOTES_PER_OCTAVE - 1) =>
            /\ e.index = StatedIndex(e)
            /\ e.post.output = noteToPhaseRate[StatedIndex(e) + 1]

(***************************************************************************)
(* SquareWavetable::Lookup, and the samples of one tick that is not        *)
(* silent, one by one.                                                     *)
(***************************************************************************)
\* a >> n for a 32-bit a and 16 <= n < 32.
U32Shr(a, n) == a[1] \div (2 ^ (n - 16))

\* Lookup with the right index taken as left + 1.
LookupNoWrap(ph, table) ==
    [phase |-> ph, table |-> table,
     left |-> U32Shr(ph, WAVETABLE_SHIFT),
     right |-> U32Shr(ph, WAVETABLE_SHIFT) + 1]

\* The two reads of Lookup: data[table][left] and data[table][right].
Lookup(ph, table) ==
    [phase |-> ph, table |-> table,
     left |-> U32Shr(ph, WAVETABLE_SHIFT),
     right |-> U32Shr(U32MulAdd(U32MulAdd(ph, 1, WAVETABLE_MASK), 1, U32(0, 1)),
                      WAVETABLE_SHIFT)]

\* The phases the tick starts at: the ends of the range, and both ends of
\* the first, second and last table slot.
Phases ==
    { U32Zero, U32(63, Half - 1), U32(64, 0), U32(127, Half - 1),
      U32(Half - 65, Half - 1), U32(Half - 64, 0), U32(Half - 64, 1),
      U32(Half - 1, Half - 1) }

InitSample ==
    /\ songstr = <<>>
    /\ player = MMLPlayer0
    /\ last = NoCall
    /\ ev = NoEvent
    /\ other = NoPlayer
    /\ otherLast = NoCall
    /\ pc = "loop"
    /\ data = <<>>
    /\ phase \in Phases
    /\ phaseRate \in Rates \ {U32Zero}
    /\ tableNum = GetTable(phaseRate)

\* float sample = wavetable.Lookup(phase, tableNum); data.push_back(...);
\* phase += phaseRate
RenderSample ==
    /\ Len(data) < MaxSamples
    /\ data' = Append(data, Lookup(phase, tableNum))
    /\ phase' = U32MulAdd(phase, 1, phaseRate)
    /\ UNCHANGED <<songstr, player, last, ev, other, otherLast, pc, phaseRate,
                   tableNum>>

SpecSample == InitSample /\ [][RenderSample]_vars

\* C14: Lookup reads two table indices, left = phase >> 22 and right =
\* ((phase + 2^22) mod 2^32) >> 22; both are in 0 .. WAVETABLE_SIZE - 1 and
\* right = (left + 1) mod WAVETABLE_SIZE.
C14_LookupInTable ==
    \A k \in 1..Len(data) :
        LET s == data[k]
        IN  /\ s.left >= 0 /\ s.left <= WAVETABLE_SIZE - 1
            /\ s.right >= 0 /\ s.right <= WAVETABLE_SIZE - 1
            /\ s.right = (s.left + 1) % WAVETABLE_SIZE
            \* left is phase >> 22: phase is in slot left of 2^22 phases
            /\ s.left * 64 <= s.phase[1]
            /\ s.phase[1] < (s.left + 1) * 64
            /\ s.table = tableNum

\* C14's case: a phase in the last table slot interpolates towards index 0.
C14_Witness ==
    \E k \in 1..Len(data) :
        /\ data[k].left = WAVETABLE_SIZE - 1
        /\ data[k].right = 0
        /\ data[k].phase = U32(Half - 1, Half - 1)

(***************************************************************************)
(* float: the value m * 2^e with a mantissa m of at most 24 bits.          *)
(***************************************************************************)
Mantissa == 2 ^ 24

RECURSIVE Bits(_)
\* The number of bits of the natural n.
Bits(n) == IF n = 0 THEN 0 ELSE 1 + Bits(n \div 2)

RECURSIVE Odd(_)
\* The same value with an odd mantissa.
Odd(x) ==
    IF x.m = 0 \/ x.m % 2 = 1 THEN x
    ELSE Odd([m |-> x.m \div 2, e |-> x.e + 1])

\* kept * 2^e, rounded up by one unit when the part cut off, rem of whole,
\* is above the half, and to even when it is the half.
Rounded(kept, rem, whole, e) ==
    LET up == IF 2 * rem > whole \/ (2 * rem = whole /\ kept % 2 = 1)
              THEN 1 ELSE 0
    IN  Odd([m |-> kept + up, e |-> e])

\* The float nearest to n * 2^e, for a natural n below 2^31.
RoundNat(n, e) ==
    IF n < Mantissa THEN [m |-> n, e |-> e]
    ELSE LET s == Bits(n) - 24
         IN  Rounded(n \div (2 ^ s), n % (2 ^ s), 2 ^ s, e + s)

\* (float) of an int below 2^24.
FloatOfInt(n) == [m |-> n, e |-> 0]

\* (float) of a uint32_t: the nearest float.
FloatOfU32(a) ==
    IF a[1] < 256 THEN [m |-> a[1] * Half + a[2], e |-> 0]
    ELSE LET s == Bits(a[1]) - 8
         IN  Rounded(a[1] * (2 ^ (16 - s)) + a[2] \div (2 ^ s),
                     a[2] % (2 ^ s), 2 ^ s, s)

\* x * y in float.
FloatMul(x, y) ==
    LET a == Odd(x)
        b == Odd(y)
    IN  RoundNat(a.m * b.m, a.e + b.e)

RECURSIVE Divide(_, _, _, _)
\* Long division: quotient bits are taken until the quotient has 24 bits or
\* the division is exact; the remainder rounds the result.
Divide(q, r, d, e) ==
    IF r = 0 \/ q >= Mantissa \div 2 THEN Rounded(q, r, d, e)
    ELSE Divide(2 * q + (2 * r) \div d, (2 * r) % d, d, e - 1)

\* x / y in float, for x > 0 and y > 0.
FloatDiv(x, y) ==
    LET a == Odd(x)
        b == Odd(y)
    IN  Divide(a.m \div b.m, a.m % b.m, b.m, a.e - b.e)

\* Whether the value of x is below 2^32: (uint32_t)x is defined.
FitsU32(x) == x.m = 0 \/ Bits(x.m) + x.e <= 32

\* (uint32_t)x for x >= 0 that fits: the value truncated.
FloatToU32(x) ==
    IF x.e >= 16 THEN U32((x.m * (2 ^ (x.e - 16))) % Half, 0)
    ELSE IF x.e >= 0
    THEN U32((x.m \div (2 ^ (16 - x.e))) % Half,
             (x.m % (2 ^ (16 - x.e))) * (2 ^ x.e))
    ELSE IF x.e > 0 - 24
    THEN U32((x.m \div (2 ^ (0 - x.e))) \div Half,
             (x.m \div (2 ^ (0 - x.e))) % Half)
    ELSE U32Zero

(***************************************************************************)
(* SquareWavetable::Generate, one level per step, and the levels GetTable  *)
(* then selects.  data holds the levels: the harmonics each was summed     *)
(* from and its threshold.                                                 *)
(***************************************************************************)
UINT32_MAX == U32(Half - 1, Half - 1)

\* The int value of a 32-bit value below 2^31.
IntOf(a) == a[1] * Half + a[2]

\* frequency, were it left as it is from level to level.
NextFrequencySame(f) == f

\* frequency *= 2
NextFrequency(f) == [f EXCEPT !.e = @ + 1]

\* maxHarmonics, were it left as it is from level to level.
NextHarmonicsSame(h) == h

\* maxHarmonics /= 2; if (maxHarmonics == 0) { maxHarmonics = 1; }
NextHarmonics(h) == IF h \div 2 = 0 THEN 1 ELSE h \div 2

\* UINT32_MAX * 2 * frequency / sampleRate: the product of the two unsigned
\* values wraps, the rest is float arithmetic.
TopPhaseRate(frequency, sampleRate) ==
    FloatDiv(FloatMul(FloatOfU32(U32MulAdd(U32Zero, 2, UINT32_MAX)), frequency),
             FloatOfInt(sampleRate))

\* One pass of the loop over the levels: the odd harmonics up to
\* maxHarmonics are summed, and the threshold is recorded.
Level(frequency, maxHarmonics, sampleRate) ==
    [frequency |-> frequency,
     maxHarmonics |-> maxHarmonics,
     harmonics |-> { h \in 1..maxHarmonics : h % 2 = 1 },
     fits |-> FitsU32(TopPhaseRate(frequency, sampleRate)),
     top |-> FloatToU32(TopPhaseRate(frequency, sampleRate))]

InitGenerate ==
    /\ songstr = <<>>
    /\ player = MMLPlayer0
    /\ last = NoCall
    /\ ev = NoEvent
    /\ other = NoPlayer
    /\ otherLast = NoCall
    /\ pc = "generate"
    /\ data = <<>>
    /\ phase = U32Zero
    /\ phaseRate = U32Zero
    /\ tableNum = NoTable

\* for (size_t tableNum = 0; tableNum < WAVETABLE_NUM_TABLES; tableNum++)
GenerateLevel ==
    /\ pc = "generate"
    /\ data' = Append(data,
          IF data = <<>>
          THEN Level(FloatOfInt(WAVETABLE_BASE_FREQ),
                     IntOf(FloatToU32(FloatDiv(FloatOfInt(WAVETABLE_CUTOFF_FREQ),
                                               FloatOfInt(WAVETABLE_BASE_FREQ)))),
                     SAMPLE_RATE)
          ELSE Level(NextFrequency(data[Len(data)].frequency),
                     NextHarmonics(data[Len(data)].maxHarmonics),
                     SAMPLE_RATE))
    /\ pc' = IF Len(data') < WAVETABLE_NUM_TABLES THEN "generate" ELSE "generated"
    /\ UNCHANGED <<songstr, player, last, ev, other, otherLast, phase, phaseRate,
                   tableNum>>

\* phaseRate = player.Tick(), any phase-rate.
NextPhaseRate ==
    /\ pc = "generated"
    /\ tableNum # NoTable \/ phaseRate = U32Zero
    /\ phaseRate' \in Rates
    /\ tableNum' = NoTable
    /\ UNCHANGED <<songstr, player, last, ev, other, otherLast, pc, data, phase>>

\* auto tableNum = wavetable.GetTable(phaseRate)
SelectLevel ==
    /\ pc = "generated"
    /\ tableNum = NoTable
    /\ tableNum' = GetTable(phaseRate)
    /\ UNCHANGED <<songstr, player, last, ev, other, otherLast, pc, data, phase,
                   phaseRate>>

NextGenerate == GenerateLevel \/ NextPhaseRate \/ SelectLevel

SpecGenerate == InitGenerate /\ [][NextGenerate]_vars

\* C15: the thresholds Generate records strictly increase with the level,
\* and each is below 2^32 before it is converted to a 32-bit value.  They
\* are the thresholds topPhaseRate that GetTable searches.
C15_ThresholdsIncrease ==
    /\ \A k \in 1..Len(data) :
          /\ data[k].fits
          /\ data[k].top = topPhaseRate[k]
          /\ k > 1 => U32Less(data[k - 1].top, data[k].top)
    /\ \A k \in 1..(Len(topPhaseRate) - 1) :
          U32Less(topPhaseRate[k], topPhaseRate[k + 1])

\* C15's case: all WAVETABLE_NUM_TABLES levels are generated.
C15_Witness ==
    /\ pc = "generated"
    /\ Len(data) = WAVETABLE_NUM_TABLES
    /\ U32Less(data[WAVETABLE_NUM_TABLES - 1].top, data[WAVETABLE_NUM_TABLES].top)

\* The note indices whose phase-rate is phaseRate.
NotesPlayed == { i \in 1..Len(noteToPhaseRate) : noteToPhaseRate[i] = phaseRate }

\* C16: the level GetTable selects for the phase-rate of a note of the note
\* table holds only harmonics h with h * frequency below sampleRate / 2:
\* h * (rate + 1) is at most 2^31 - 1, where frequency / sampleRate is below
\* (rate + 1) / (2^32 - 1).
C16_NoteBelowNyquist ==
    (pc = "generated" /\ tableNum # NoTable /\ NotesPlayed # {}) =>
        /\ tableNum + 1 \in 1..Len(data)
        /\ \A h \in data[tableNum + 1].harmonics :
              IntOf(phaseRate) + 1 <= (2 ^ 30 - 1 + 2 ^ 30) \div h

\* C16's case: the highest note of the table has got its level, the level
\* of 15 harmonics.
C16_Witness ==
    /\ pc = "generated"
    /\ phaseRate = noteToPhaseRate[NUM_OCTAVES * NOTES_PER_OCTAVE]
    /\ tableNum = 5
    /\ data[tableNum + 1].maxHarmonics = 15
    /\ 15 \in data[tableNum + 1].harmonics

(***************************************************************************)
(* Two sequencers, the second on the text with whitespace put in before    *)
(* every command and behind the last one.                                  *)
(***************************************************************************)
\* The characters the command at s[i] takes, as Tick consumes them: the
\* letter, the modifier of a note, the digit.
CommandLength(s, i) ==
    LET c == toupper(s[i])
    IN  IF c = chO \/ c = chT \/ c = chR THEN 2
        ELSE IF IsNoteLetter(c)
        THEN IF i < Len(s) /\ IsModifier(s[i + 1]) THEN 3 ELSE 2
        ELSE 1

RECURSIVE SpacedFrom(_, _, _)
\* s from its command at i on, with w before every command; a command cut
\* short by the end of the text is left as it is.
SpacedFrom(s, i, w) ==
    IF i > Len(s) THEN <<w>>
    ELSE IF i + CommandLength(s, i) - 1 > Len(s) THEN <<w>> \o SubSeq(s, i, Len(s))
    ELSE <<w>> \o SubSeq(s, i, i + CommandLength(s, i) - 1)
              \o SpacedFrom(s, i + CommandLength(s, i), w)

Whitespace == { chSpace, TAB, LF, CR }

InitSpaced ==
    /\ songstr \in Texts
    /\ player = Load(MMLPlayer0, songstr)
    /\ \E w \in Whitespace : other = Load(MMLPlayer0, SpacedFrom(songstr, 1, w))
    /\ last = NoCall
    /\ otherLast = NoCall
    /\ ev = NoEvent
    /\ RenderIdle

SpecSpaced == InitSpaced /\ [][TickBoth]_vars

\* C17: a whitespace character at command position is skipped without a
\* change of octave, tempo, countdown or output; so a text and the same text
\* with whitespace between its commands give the same Tick results.
C17_WhitespaceSkipped ==
    /\ \A e \in { otherLast.log[i] : i \in 1..Len(otherLast.log) } :
          e.cmd \in Whitespace =>
              /\ ~e.threw
              /\ e.post.octave = e.pre.octave
              /\ e.post.tempo = e.pre.tempo
              /\ e.post.counts = e.pre.counts
              /\ e.post.output = e.pre.output
              /\ e.post.position = e.pre.position + 1
    /\ otherLast.kind = last.kind
    /\ otherLast.ret = last.ret
    /\ IsDone(other) = IsDone(player)

\* C18: in a render of a text of length len, every read of the song by Tick
\* and ReadNumber is at an index in 0 .. len; after a Tick call that returns,
\* position is -1 or in 0 .. len; the lookahead for the modifier leaves
\* position behind the note and at most at the sentinel.
C18_ReadsInsideBuffer ==
    /\ \A e \in Passes : \A j \in 1..Len(e.reads) :
          e.reads[j] >= 0 /\ e.reads[j] <= Len(songstr)
    /\ last.kind \in {"parse", "sustain", "idle"} =>
          \/ player.position = 0 - 1
          \/ player.position >= 0 /\ player.position <= Len(songstr)
    /\ \A e \in Passes :
          (IsNoteLetter(e.cmd) /\ ~e.threw) =>
              /\ e.post.position =
                    e.pre.position
                      + (IF player.song[e.pre.position + 2]
                              \in {chSharp, chPlus, chMinus}
                         THEN 3 ELSE 2)
              /\ e.post.position <= Len(songstr)

\* C18's case: the text "C#" ends inside a command: the digit read is the
\* read of the sentinel, at index len.
C18_Witness ==
    /\ songstr = Str(<<"C", "#">>)
    /\ pc = "thrown"
    /\ \E e \in Passes : e.threw /\ e.reads = <<0, 1, Len(songstr)>>

====
